---------------------------- MODULE Spec2Model ----------------------------
(***************************************************************************)
(* Cloth_Selector_C-P: outfit recommendation demo.                         *)
(*                                                                         *)
(* The repository holds a Flask backend (app.py, colour extraction,        *)
(* harmony classification and scoring), and three front ends:              *)
(*   "mock"  : src/script.js           (random combinations in the page)   *)
(*   "class" : src/unnamed/part_000    (class AIStyleMatcher)              *)
(*   "web"   : static/js/script.js of src/ai-clothing-project-full-code.md *)
(*             (talks to the Flask backend)                                *)
(***************************************************************************)
EXTENDS Integers, Sequences, FiniteSets, Bags, TLC

(***************************************************************************)
(* Bounds of the model.                                                    *)
(***************************************************************************)
\* longest colour list handed to the harmony/score engine in SpecEngine
MaxColors == 3
\* images a behaviour of a front end loads in all (uploads are capped by it)
MaxLoads == 2
\* generations a behaviour of a front end starts in all
MaxGen == 2
\* files the user picks or drops in one action
MaxSelect == 2
\* most images in a generate-combinations request sent straight to the endpoint
MaxReqImages == 5

\* the files of one upload form
MaxUploadFiles == 3

\* the pixels of one cluster of an image
MaxClusterSize == 3

\* the analyze-image requests of one run
MaxRequests == 4

VARIABLES
    \* ---- front ends ----
    variant,              \* which front end the page runs: "mock", "class" or "web"
    uploaded,             \* uploadedFiles (mock) / this.uploadedImages (class) / uploadedImages (web)
    occasionValue,        \* occasion.value
    clothingTypeValue,    \* clothingType.value
    colorPreferenceValue, \* colorPreference.value
    btnDisabled,          \* generateBtn.disabled
    btnLoading,           \* generateBtn.classList contains 'loading'
    loadingMsg,           \* text of the loading message / loading section shown, "" when none
    errorMsg,             \* text of the error message (an alert in "class") shown, "" when none
    currentCombinations,  \* currentCombinations (mock, web)
    displayed,            \* the combinations rendered in the results container
    resultsShown,         \* the results section is visible
    reading,              \* FileReader reads in progress: a bag of files (mock, class)
    uploadReqs,           \* POST /api/upload requests in flight: a bag of file lists (web)
    timers,               \* pending 2000 ms generation timers, oldest first (mock, class)
    genReqs,              \* POST /api/generate-combinations requests in flight (web)
    \* ---- history ----
    genSeq,               \* generations started so far
    submitted,            \* history, per pending timer: the working set and occasion when it was set
    loads,                \* files handed to a FileReader or sent to /api/upload so far
    idsUsed,              \* distinct image ids drawn so far
    resolved,             \* generations whose result was displayed
    lastResolved,         \* the generation whose result arrived last, with that result
    \* ---- harmony/score engine called directly (SpecEngine) ----
    colorsIn, splitIn, occasionIn, harmonyOut, scoreOut,
    \* ---- backend endpoint called directly (SpecApi) ----
    apiReq, apiResp,
    uploadDir             \* the files in app.config['UPLOAD_FOLDER']

feVars == <<variant, uploaded, occasionValue, clothingTypeValue, colorPreferenceValue, btnDisabled,
            btnLoading, loadingMsg, errorMsg, currentCombinations, displayed, resultsShown, reading,
            uploadReqs, timers, genReqs, genSeq, submitted, loads, idsUsed, resolved, lastResolved>>

engVars == <<colorsIn, splitIn, occasionIn, harmonyOut, scoreOut>>

apiVars == <<apiReq, apiResp, uploadDir>>

vars == <<feVars, engVars, apiVars>>

(***************************************************************************)
(* Colours.  A hex colour '#rrggbb' is the sequence of its six hex digits. *)
(***************************************************************************)
RED     == <<15, 15, 0, 0, 0, 0>>
CYAN    == <<0, 0, 15, 15, 15, 15>>
ORANGE  == <<15, 15, 5, 5, 0, 0>>
AZURE   == <<0, 0, 10, 10, 15, 15>>
GREEN   == <<0, 0, 15, 15, 0, 0>>
BLUE    == <<0, 0, 0, 0, 15, 15>>
WHITE   == <<15, 15, 15, 15, 15, 15>>
BLACK   == <<0, 0, 0, 0, 0, 0>>

Palette == {RED, CYAN, ORANGE, AZURE, GREEN, BLUE, WHITE, BLACK}

Abs(x) == IF x < 0 THEN 0 - x ELSE x

Min2(a, b) == IF a <= b THEN a ELSE b

Max2(a, b) == IF a >= b THEN a ELSE b

\* int(hex_color[i:i+2], 16) for i in (1, 3, 5): channel k of 1..3
HexByte(hex_color, k) == 16 * hex_color[2 * k - 1] + hex_color[2 * k]

\* rgb = tuple(int(hex_color[i:i+2], 16) for i in (1, 3, 5))
HexToRgb(hex_color) == <<HexByte(hex_color, 1), HexByte(hex_color, 2), HexByte(hex_color, 3)>>

(***************************************************************************)
(* colorsys.rgb_to_hsv(r/255, g/255, b/255)[0] * 360, as the exact         *)
(* rational n/d (d > 0): the hue is a ratio of channel differences, so the *)
(* division by 255 cancels.  h = (h/6.0) % 1.0 is the reduction of the     *)
(* numerator modulo 360*d.                                                 *)
(***************************************************************************)
HueDegrees(rgb) ==
    LET r == rgb[1]
        g == rgb[2]
        b == rgb[3]
        maxc == Max2(r, Max2(g, b))
        minc == Min2(r, Min2(g, b))
        rangec == maxc - minc
    IN  IF minc = maxc THEN [n |-> 0, d |-> 1]
        ELSE IF r = maxc THEN [n |-> (60 * (g - b)) % (360 * rangec), d |-> rangec]
        ELSE IF g = maxc THEN [n |-> (120 * rangec + 60 * (b - r)) % (360 * rangec), d |-> rangec]
        ELSE [n |-> (240 * rangec + 60 * (r - g)) % (360 * rangec), d |-> rangec]

\* abs(x - y) of two rationals
RatAbsDiff(x, y) == [n |-> Abs(x.n * y.d - y.n * x.d), d |-> x.d * y.d]

\* x <= y of two rationals
RatLe(x, y) == x.n * y.d <= y.n * x.d

\* lo <= x <= hi for a rational x and integers lo, hi
RatBetween(x, lo, hi) == lo * x.d <= x.n /\ x.n <= hi * x.d

\* max(hues), min(hues)
HueMax(hues) == hues[CHOOSE i \in 1..Len(hues) : \A j \in 1..Len(hues) : RatLe(hues[j], hues[i])]

HueMin(hues) == hues[CHOOSE i \in 1..Len(hues) : \A j \in 1..Len(hues) : RatLe(hues[i], hues[j])]

\* hues = [hsv[0] * 360 for hsv in hsv_colors]
Hues(colors) == [i \in 1..Len(colors) |-> HueDegrees(HexToRgb(colors[i]))]

\* mutant: only neighbouring colours of the list are compared
HasComplementaryPair_adjacent(hues) ==
    \E i \in 1..(Len(hues) - 1) :
        RatBetween(RatAbsDiff(hues[i], hues[i + 1]), 160, 200)

\* mutant: the difference is taken without abs()
HasComplementaryPair_signed(hues) ==
    \E i \in 1..Len(hues) : \E j \in (i + 1)..Len(hues) :
        /\ RatLe(hues[j], hues[i])
        /\ RatBetween(RatAbsDiff(hues[i], hues[j]), 160, 200)

\* the loop "for i ... for j in range(i+1, ...): if 160 <= hue_diff <= 200"
HasComplementaryPair(hues) ==
    \E i \in 1..Len(hues) : \E j \in (i + 1)..Len(hues) :
        RatBetween(RatAbsDiff(hues[i], hues[j]), 160, 200)

\* mutant: only the empty list is monochrome
analyze_color_harmony_noSingle(colors) ==
    IF Len(colors) < 1 THEN "monochrome"
    ELSE LET hues == Hues(colors)
             hue_range == RatAbsDiff(HueMax(hues), HueMin(hues))
         IN  IF HasComplementaryPair(hues) THEN "complementary"
             ELSE IF RatBetween(hue_range, 0, 60) THEN "analogous"
             ELSE IF RatBetween(hue_range, 0, 120) THEN "triadic"
             ELSE "diverse"

\* mutant: the "elif hue_range <= 120" branch is missing
analyze_color_harmony_noTriadic(colors) ==
    IF Len(colors) < 2 THEN "monochrome"
    ELSE LET hues == Hues(colors)
             hue_range == RatAbsDiff(HueMax(hues), HueMin(hues))
         IN  IF HasComplementaryPair(hues) THEN "complementary"
             ELSE IF RatBetween(hue_range, 0, 60) THEN "analogous"
             ELSE "diverse"

analyze_color_harmony(colors) ==
    IF Len(colors) < 2 THEN "monochrome"
    ELSE LET hues == Hues(colors)
             hue_range == RatAbsDiff(HueMax(hues), HueMin(hues))
         IN  IF HasComplementaryPair(hues) THEN "complementary"
             ELSE IF RatBetween(hue_range, 0, 60) THEN "analogous"
             ELSE IF RatBetween(hue_range, 0, 120) THEN "triadic"
             ELSE "diverse"

(***************************************************************************)
(* Flask backend: scoring.                                                 *)
(***************************************************************************)
Occasions == {"formal", "casual", "party", "business", "sports", "wedding"}

\* an occasion value that is not a key of occasion_multipliers
OtherOccasion == "beach"

\* all_colors = []; for img_data in images_data: all_colors.extend(img_data.get('colors', []))
RECURSIVE AllColors(_)
AllColors(images_data) ==
    IF images_data = <<>> THEN <<>>
    ELSE Head(images_data).colors \o AllColors(Tail(images_data))

\* mutant: every harmony is worth 100 points
HarmonyScore_hundred(harmony) == 100

\* harmony_scores.get(harmony, 70)
HarmonyScore(harmony) ==
    CASE harmony = "complementary" -> 95
      [] harmony = "analogous" -> 90
      [] harmony = "triadic" -> 85
      [] harmony = "monochrome" -> 80
      [] harmony = "diverse" -> 75
      [] OTHER -> 70

\* mutant: the multiplier does not depend on the occasion
OccasionMultiplier_flat(occasion, harmony) == 90

\* occasion_multipliers.get(occasion, 0.9), in hundredths
OccasionMultiplier(occasion, harmony) ==
    CASE occasion = "formal" -> IF harmony \in {"complementary", "monochrome"} THEN 90 ELSE 80
      [] occasion = "casual" -> 95
      [] occasion = "party" -> IF harmony \in {"complementary", "diverse"} THEN 95 ELSE 85
      [] occasion = "business" -> IF harmony \in {"monochrome", "analogous"} THEN 90 ELSE 80
      [] occasion = "sports" -> 90
      [] occasion = "wedding" -> IF harmony = "complementary" THEN 95 ELSE 85
      [] OTHER -> 90

\* mutant: the lower clamp is missing
ClampScore_noFloor(color_score, multiplier) == Min2(95, (color_score * multiplier) \div 100)

\* min(95, max(65, int(final_score))); int() truncates the non-negative product
ClampScore(color_score, multiplier) == Min2(95, Max2(65, (color_score * multiplier) \div 100))

calculate_outfit_score(images_data, occasion, color_preference) ==
    LET base_score == 70
        all_colors == AllColors(images_data)
        harmony == analyze_color_harmony(all_colors)
        color_score == HarmonyScore(harmony)
    IN  IF all_colors = <<>> THEN base_score
        ELSE ClampScore(color_score, OccasionMultiplier(occasion, harmony))

(***************************************************************************)
(* Flask backend: POST /api/generate-combinations.                         *)
(* An image is the dict built by upload_images, kept to the keys the       *)
(* endpoint reads: [id, colors].  A request body is a record (a JSON       *)
(* object), NoData (JSON null or an empty object: "if not data") or NoJson. *)
(***************************************************************************)
NoData == [nodata |-> TRUE]

\* a request without a JSON body: request.get_json() raises (Flask 2.3.3), and
\* the except branch of the view answers
NoJson == [nojson |-> TRUE]

\* data.get(key, default)
Get(data, key, default) == IF key \in DOMAIN data THEN data[key] ELSE default

\* Python's s[a:b] for 0 <= a <= b
Slice(s, a, b) == SubSeq(s, a + 1, Min2(b, Len(s)))

\* img.get('colors', [])[:2] for img in selected_images, concatenated
RECURSIVE TopTwoColors(_)
TopTwoColors(selected_images) ==
    IF selected_images = <<>> THEN <<>>
    ELSE Slice(Head(selected_images).colors, 0, 2) \o TopTwoColors(Tail(selected_images))

\* combo_size = min(4, max(2, len(images_data) - i))
ComboSize(images_data, i) == Min2(4, Max2(2, Len(images_data) - i))

\* selected_images = images_data[i:i+combo_size], padded from the start of the list
\* mutant: a window that runs past the end is not padded from the start
SelectedImages_noWrap(images_data, i) ==
    Slice(images_data, i, i + ComboSize(images_data, i))

SelectedImages(images_data, i) ==
    LET combo_size == ComboSize(images_data, i)
        selected_images == Slice(images_data, i, i + combo_size)
    IN  IF Len(selected_images) < combo_size
        THEN selected_images \o Slice(images_data, 0, combo_size - Len(selected_images))
        ELSE selected_images

\* mutant: the "+ 1" is missing
Rating_noPlusOne(score) == Min2(5, Max2(1, score \div 20))

\* 'rating': min(5, max(1, int(score / 20) + 1))
Rating(score) == Min2(5, Max2(1, (score \div 20) + 1))

\* the dict appended for loop index i (text fields left out)
Combination(images_data, occasion, color_preference, i) ==
    LET selected_images == SelectedImages(images_data, i)
        score == calculate_outfit_score(selected_images, occasion, color_preference)
        harmony == analyze_color_harmony(TopTwoColors(selected_images))
    IN  [id |-> i + 1,
         images |-> selected_images,
         score |-> score,
         rating |-> Rating(score),
         harmony |-> harmony]

\* one step of the stable sort: c goes after every element whose score is not lower
InsertByScore(sorted, c) ==
    LET k == Cardinality({j \in 1..Len(sorted) : sorted[j].score >= c.score})
    IN  SubSeq(sorted, 1, k) \o <<c>> \o SubSeq(sorted, k + 1, Len(sorted))

\* the list left as the loop built it
SortByScore_unsorted(combinations) == combinations

\* combinations.sort(key=lambda x: x['score'], reverse=True): stable
RECURSIVE SortByScore(_)
SortByScore(combinations) ==
    IF combinations = <<>> THEN <<>>
    ELSE InsertByScore(SortByScore(SubSeq(combinations, 1, Len(combinations) - 1)),
                       combinations[Len(combinations)])

generate_combinations(data) ==
    IF data = NoJson
    THEN [status |-> 500, error |-> "Generation failed: 415 Unsupported Media Type"]
    ELSE IF data = NoData THEN [status |-> 400, error |-> "No data provided"]
    ELSE LET images_data == Get(data, "images", <<>>)
             occasion == Get(data, "occasion", "casual")
             color_preference == Get(data, "colorPreference", "")
             num_combinations == Min2(4, Len(images_data))
             combinations == [k \in 1..num_combinations |->
                                 Combination(images_data, occasion, color_preference, k - 1)]
         IN  IF Len(images_data) < 2
             THEN [status |-> 400, error |-> "At least 2 images required for combinations"]
             ELSE [status |-> 200,
                   success |-> TRUE,
                   combinations |-> SortByScore(combinations),
                   total_combinations |-> Len(combinations)]

(***************************************************************************)
(* Values of the variables a specification does not use.                   *)
(***************************************************************************)
NoResponse == [status |-> 0]

FeParked ==
    /\ variant = "none"
    /\ uploaded = <<>>
    /\ occasionValue = ""
    /\ clothingTypeValue = ""
    /\ colorPreferenceValue = ""
    /\ btnDisabled = TRUE
    /\ btnLoading = FALSE
    /\ loadingMsg = ""
    /\ errorMsg = ""
    /\ currentCombinations = <<>>
    /\ displayed = <<>>
    /\ resultsShown = FALSE
    /\ reading = EmptyBag
    /\ uploadReqs = EmptyBag
    /\ timers = <<>>
    /\ genReqs = {}
    /\ genSeq = 0
    /\ submitted = <<>>
    /\ loads = 0
    /\ idsUsed = 0
    /\ resolved = {}
    /\ lastResolved = [seq |-> 0, combinations |-> <<>>]

EngParked ==
    /\ colorsIn = <<>>
    /\ splitIn = 0
    /\ occasionIn = ""
    /\ harmonyOut = ""
    /\ scoreOut = 0

ApiParked ==
    /\ apiReq = NoData
    /\ apiResp = NoResponse
    /\ uploadDir = {}

(***************************************************************************)
(* SpecEngine: analyze_color_harmony and calculate_outfit_score applied to *)
(* every colour list over the palette up to MaxColors colours, split over  *)
(* two images at every position, and every occasion.                       *)
(***************************************************************************)
ColorLists == UNION {[1..n -> Palette] : n \in 0..MaxColors}

\* the images_data of the call: the colour list split over two images
EngImages ==
    <<[id |-> 1, colors |-> SubSeq(colorsIn, 1, splitIn)],
      [id |-> 2, colors |-> SubSeq(colorsIn, splitIn + 1, Len(colorsIn))]>>

EngInit ==
    /\ FeParked
    /\ ApiParked
    /\ colorsIn \in ColorLists
    /\ splitIn \in 0..Len(colorsIn)
    /\ occasionIn \in Occasions \cup {OtherOccasion}
    /\ harmonyOut = ""
    /\ scoreOut = 0

Eng_analyze ==
    /\ harmonyOut = ""
    /\ harmonyOut' = analyze_color_harmony(colorsIn)
    /\ UNCHANGED <<colorsIn, splitIn, occasionIn, scoreOut, feVars, apiVars>>

Eng_score ==
    /\ scoreOut = 0
    /\ scoreOut' = calculate_outfit_score(EngImages, occasionIn, "")
    /\ UNCHANGED <<colorsIn, splitIn, occasionIn, harmonyOut, feVars, apiVars>>

EngNext == Eng_analyze \/ Eng_score

SpecEngine == EngInit /\ [][EngNext]_vars

(***************************************************************************)
(* SpecHarmony: analyze_color_harmony alone, on every colour list over the *)
(* palette up to MaxColors colours.                                        *)
(***************************************************************************)
HarmonyInit ==
    /\ FeParked
    /\ ApiParked
    /\ colorsIn \in ColorLists
    /\ splitIn = 0
    /\ occasionIn = ""
    /\ harmonyOut = ""
    /\ scoreOut = 0

HarmonyNext == Eng_analyze

SpecHarmony == HarmonyInit /\ [][HarmonyNext]_vars

(***************************************************************************)
(* SpecApi: one request sent straight to POST /api/generate-combinations.  *)
(* The images of a request carry the colour lists extract_dominant_colors  *)
(* stored at upload: five colours, or none for an unreadable file.         *)
(***************************************************************************)
RED5 == <<RED, RED, RED, RED, RED>>

GREENBLUE5 == <<GREEN, GREEN, BLUE, BLUE, BLUE>>

MIX5 == <<RED, ORANGE, CYAN, GREEN, BLUE>>

ApiColorLists == {RED5, GREENBLUE5, MIX5, <<>>}

ApiImageLists ==
    UNION {{[i \in 1..n |-> [id |-> i, colors |-> cs[i]]] : cs \in [1..n -> ApiColorLists]} :
           n \in 0..MaxReqImages}

ApiOccasions == {"formal", "casual"}

ApiRequests ==
    {NoData, NoJson}
    \cup {[images |-> imgs, occasion |-> o, clothingType |-> "", colorPreference |-> ""] :
            imgs \in ApiImageLists, o \in ApiOccasions}
    \cup {[images |-> imgs] : imgs \in ApiImageLists}

ApiInit ==
    /\ FeParked
    /\ EngParked
    /\ apiReq \in ApiRequests
    /\ apiResp = NoResponse
    /\ uploadDir = {}

Api_generate_combinations ==
    /\ apiResp = NoResponse
    /\ apiResp' = generate_combinations(apiReq)
    /\ UNCHANGED <<apiReq, uploadDir, feVars, engVars>>

ApiNext == Api_generate_combinations

SpecApi == ApiInit /\ [][ApiNext]_vars

(***************************************************************************)
(* Front ends: what they share.                                            *)
(* A file the user picks is [name, type].  An image of the working set is  *)
(* [id, name] in "mock" and "class" (the data URL and the File follow from *)
(* the name) and the backend's [id, colors] in "web".                      *)
(***************************************************************************)
\* a File: its name, its MIME type, and what the bytes are for cv2.imread and
\* KMeans ("photo": an image of at least 5 pixels; "tiny": an image of fewer
\* pixels than the 5 clusters asked for; "unreadable": not an image)
PNG == [name |-> "a.png", type |-> "image/png", content |-> "photo"]

TXT == [name |-> "notes.txt", type |-> "text/plain", content |-> "unreadable"]

Files == {PNG, TXT}

\* file.type.startsWith('image/')
IsImageType(file) == file.type \in {"image/png"}

\* files.filter(file => file.type.startsWith('image/'))
ImageFilesOf(files) == SelectSeq(files, IsImageType)

\* event.target.files / event.dataTransfer.files of one user action
FileSelections == UNION {[1..n -> Files] : n \in 1..MaxSelect}

\* the <option> values the model selects among
OccasionOptions == {"", "casual", "formal"}

ClothingTypeOptions == {"", "shirt"}

ColorPreferenceOptions == {"", "bright"}

\* the elements of s at the positions P, in the order of s
SubAt(s, P) ==
    LET F[i \in 0..Len(s)] ==
            IF i = 0 THEN <<>>
            ELSE IF i \in P THEN Append(F[i - 1], s[i]) ELSE F[i - 1]
    IN  F[Len(s)]

\* bag of the elements of a sequence
RECURSIVE SeqToBag(_)
SeqToBag(s) == IF s = <<>> THEN EmptyBag ELSE SetToBag({Head(s)}) (+) SeqToBag(Tail(s))

\* Date.now() + Math.random(): two ids computed in the same millisecond can
\* coincide (the sum is rounded to a double), so an id is a fresh value or one
\* drawn before; ids are only compared, and are numbered by first appearance
NewIds == 1..(idsUsed + 1)

FeInit ==
    /\ variant \in {"mock", "class", "web"}
    /\ uploaded = <<>>
    /\ occasionValue = ""
    /\ clothingTypeValue = ""
    /\ colorPreferenceValue = ""
    /\ btnDisabled = TRUE
    /\ btnLoading = FALSE
    /\ loadingMsg = ""
    /\ errorMsg = ""
    /\ currentCombinations = <<>>
    /\ displayed = <<>>
    /\ resultsShown = FALSE
    /\ reading = EmptyBag
    /\ uploadReqs = EmptyBag
    /\ timers = <<>>
    /\ genReqs = {}
    /\ genSeq = 0
    /\ submitted = <<>>
    /\ loads = 0
    /\ idsUsed = 0
    /\ resolved = {}
    /\ lastResolved = [seq |-> 0, combinations |-> <<>>]

\* showMessage: the auto-hide timer of an error message (the alert is closed)
HideMessage ==
    /\ errorMsg # ""
    /\ errorMsg' = ""
    /\ UNCHANGED <<variant, uploaded, occasionValue, clothingTypeValue, colorPreferenceValue,
                   btnDisabled, btnLoading, loadingMsg, currentCombinations, displayed, resultsShown,
                   reading, uploadReqs, timers, genReqs, genSeq, submitted, loads, idsUsed, resolved,
                   lastResolved, engVars, apiVars>>

(***************************************************************************)
(* Front end "mock": src/script.js.                                        *)
(***************************************************************************)
\* mutant: the occasion is not looked at
Mock_updateGenerateButton_imagesOnly(files, occ) == Len(files) = 0

\* generateBtn.disabled as updateGenerateButton sets it
Mock_updateGenerateButton(files, occ) ==
    LET hasImages == Len(files) > 0
        hasOccasion == occ # ""
    IN  ~(hasImages /\ hasOccasion)

\* processFiles: a FileReader is started for every image file
Mock_processFiles(files) ==
    /\ loads + Len(ImageFilesOf(files)) <= MaxLoads
    /\ reading' = reading (+) SeqToBag(ImageFilesOf(files))
    /\ loads' = loads + Len(ImageFilesOf(files))

Mock_handleFileSelect(files) ==
    /\ variant = "mock"
    /\ Mock_processFiles(files)
    /\ UNCHANGED <<variant, uploaded, occasionValue, clothingTypeValue, colorPreferenceValue,
                   btnDisabled, btnLoading, loadingMsg, errorMsg, currentCombinations,
                   displayed, resultsShown, uploadReqs, timers, genReqs, genSeq, submitted, idsUsed, resolved,
                   lastResolved, engVars, apiVars>>

Mock_handleDrop(files) ==
    /\ variant = "mock"
    /\ LET imageFiles == ImageFilesOf(files)
       IN  IF Len(imageFiles) > 0
           THEN /\ Mock_processFiles(imageFiles)
                /\ UNCHANGED errorMsg
           ELSE /\ errorMsg' = "Please drop only image files."
                /\ UNCHANGED <<reading, loads>>
    /\ UNCHANGED <<variant, uploaded, occasionValue, clothingTypeValue, colorPreferenceValue,
                   btnDisabled, btnLoading, loadingMsg, currentCombinations,
                   displayed, resultsShown, uploadReqs, timers, genReqs, genSeq, submitted, idsUsed, resolved,
                   lastResolved, engVars, apiVars>>

\* reader.onload of one read in progress
Mock_readerOnload(file, id) ==
    /\ variant = "mock"
    /\ BagIn(file, reading)
    /\ id \in NewIds
    /\ reading' = reading (-) SetToBag({file})
    /\ uploaded' = Append(uploaded, [id |-> id, name |-> file.name])
    /\ idsUsed' = Max2(idsUsed, id)
    /\ btnDisabled' = Mock_updateGenerateButton(uploaded', occasionValue)
    /\ UNCHANGED <<variant, occasionValue, clothingTypeValue, colorPreferenceValue,
                   btnLoading, loadingMsg, errorMsg, currentCombinations, displayed, resultsShown,
                   uploadReqs, timers, genReqs, genSeq, submitted, loads, resolved, lastResolved,
                   engVars, apiVars>>

\* uploadedFiles.filter(file => file.id !== id)
Mock_filterOut(files, id) == SelectSeq(files, LAMBDA file : file.id # id)

\* the remove button of a rendered image
Mock_removeImage(id) ==
    /\ variant = "mock"
    /\ \E i \in 1..Len(uploaded) : uploaded[i].id = id
    /\ uploaded' = Mock_filterOut(uploaded, id)
    /\ btnDisabled' = Mock_updateGenerateButton(uploaded', occasionValue)
    /\ UNCHANGED <<variant, occasionValue, clothingTypeValue, colorPreferenceValue,
                   btnLoading, loadingMsg, errorMsg, currentCombinations, displayed, resultsShown,
                   reading, uploadReqs, timers, genReqs, genSeq, submitted, loads, idsUsed, resolved,
                   lastResolved, engVars, apiVars>>

\* 'change' of occasion or clothingType (both call updateGenerateButton), and a
\* change of colorPreference (no listener)
Mock_selectChange(field, value) ==
    /\ variant = "mock"
    /\ \/ /\ field = "occasion"
          /\ value \in OccasionOptions /\ value # occasionValue
          /\ occasionValue' = value
          /\ btnDisabled' = Mock_updateGenerateButton(uploaded, value)
          /\ UNCHANGED <<clothingTypeValue, colorPreferenceValue>>
       \/ /\ field = "clothingType"
          /\ value \in ClothingTypeOptions /\ value # clothingTypeValue
          /\ clothingTypeValue' = value
          /\ btnDisabled' = Mock_updateGenerateButton(uploaded, occasionValue)
          /\ UNCHANGED <<occasionValue, colorPreferenceValue>>
       \/ /\ field = "colorPreference"
          /\ value \in ColorPreferenceOptions /\ value # colorPreferenceValue
          /\ colorPreferenceValue' = value
          /\ UNCHANGED <<occasionValue, clothingTypeValue, btnDisabled>>
    /\ UNCHANGED <<variant, uploaded, btnLoading, loadingMsg, errorMsg, currentCombinations,
                   displayed, resultsShown, reading, uploadReqs, timers, genReqs, genSeq, submitted, loads, idsUsed,
                   resolved, lastResolved, engVars, apiVars>>

\* mutant: the check of an empty uploadedFiles is missing
Mock_generateCombinations_noEmptyCheck(byClick) ==
    /\ variant = "mock"
    /\ byClick => ~btnDisabled
    /\ IF occasionValue = ""
       THEN /\ errorMsg' = "Please select an occasion."
            /\ UNCHANGED <<btnLoading, btnDisabled, timers, genSeq, submitted>>
       ELSE /\ genSeq < MaxGen
            /\ btnLoading' = TRUE
            /\ btnDisabled' = TRUE
            /\ genSeq' = genSeq + 1
            /\ submitted' = Append(submitted, [images |-> uploaded, occasion |-> occasionValue])
            /\ timers' = Append(timers, genSeq + 1)
            /\ UNCHANGED errorMsg
    /\ UNCHANGED <<variant, uploaded, occasionValue, clothingTypeValue, colorPreferenceValue,
                   loadingMsg, currentCombinations, displayed, resultsShown, reading,
                   uploadReqs, genReqs, loads, idsUsed, resolved, lastResolved, engVars,
                   apiVars>>

\* generateCombinations, run by a click on the enabled button (byClick) or
\* called through window.clothingApp
Mock_generateCombinations(byClick) ==
    /\ variant = "mock"
    /\ byClick => ~btnDisabled
    /\ IF Len(uploaded) = 0
       THEN /\ errorMsg' = "Please upload at least one clothing item."
            /\ UNCHANGED <<btnLoading, btnDisabled, timers, genSeq, submitted>>
       ELSE IF occasionValue = ""
       THEN /\ errorMsg' = "Please select an occasion."
            /\ UNCHANGED <<btnLoading, btnDisabled, timers, genSeq, submitted>>
       ELSE /\ genSeq < MaxGen
            /\ btnLoading' = TRUE
            /\ btnDisabled' = TRUE
            /\ genSeq' = genSeq + 1
            /\ submitted' = Append(submitted, [images |-> uploaded, occasion |-> occasionValue])
            /\ timers' = Append(timers, genSeq + 1)
            /\ UNCHANGED errorMsg
    /\ UNCHANGED <<variant, uploaded, occasionValue, clothingTypeValue, colorPreferenceValue,
                   loadingMsg, currentCombinations, displayed, resultsShown, reading, uploadReqs, genReqs,
                   loads, idsUsed, resolved, lastResolved, engVars, apiVars>>

\* getRandomImages(min, max): the first count images of a shuffle; the order
\* of the chosen images is kept as in uploadedFiles
Mock_getRandomImages(files, min, max) ==
    {SubAt(files, P) :
        P \in {Q \in SUBSET (1..Len(files)) :
                 \E r \in min..max : Cardinality(Q) = Min2(Max2(min, r), Len(files))}}

\* rating and confidence of the three scenarios
Mock_scenarios == <<[rating |-> 5, confidence |-> 95],
                    [rating |-> 4, confidence |-> 88],
                    [rating |-> 4, confidence |-> 82]>>

\* the values generateMockCombinations can return (colorAnalysis and styleNotes
\* left out; occasion stands for the title and description built from it)
Mock_generateMockCombinations(files, occ) ==
    LET n == Min2(Len(files), 3)
    IN  {[k \in 1..n |-> [id |-> k,
                          occasion |-> occ,
                          rating |-> Mock_scenarios[k].rating,
                          confidence |-> Mock_scenarios[k].confidence,
                          images |-> pick[k]]] :
            pick \in [1..n -> Mock_getRandomImages(files, 2, 4)]}

\* the setTimeout callback of generateCombinations: timers of equal delay run
\* in the order they were set
Mock_timerFire ==
    /\ variant = "mock"
    /\ timers # <<>>
    /\ \E combinations \in Mock_generateMockCombinations(uploaded, occasionValue) :
          /\ displayed' = combinations
          /\ resultsShown' = TRUE
          /\ currentCombinations' = combinations
          /\ lastResolved' = [seq |-> Head(timers), combinations |-> combinations]
    /\ resolved' = resolved \cup {Head(timers)}
    /\ timers' = Tail(timers)
    /\ submitted' = Tail(submitted)
    /\ btnLoading' = FALSE
    /\ btnDisabled' = Mock_updateGenerateButton(uploaded, occasionValue)
    /\ UNCHANGED <<variant, uploaded, occasionValue, clothingTypeValue, colorPreferenceValue,
                   loadingMsg, errorMsg, reading, uploadReqs, genReqs, genSeq, loads,
                   idsUsed, engVars, apiVars>>

(***************************************************************************)
(* Front end "class": src/unnamed/part_000 (class AIStyleMatcher).  An     *)
(* alert is modal: no handler runs until it is closed.                     *)
(***************************************************************************)
\* "Limit to 12 images"
MaxImages == 12

\* generateBtn.disabled as updateGenerateButtonState sets it
Cls_updateGenerateButtonState(images, occ) ==
    LET hasImages == Len(images) > 0
    IN  ~(hasImages /\ occ # "")

\* processFiles: a FileReader is started for every image file while the
\* working set, as it is when the files are picked, is below the limit
Cls_processFiles(files) ==
    LET imageFiles == ImageFilesOf(files)
        started == IF Len(uploaded) < MaxImages THEN imageFiles ELSE <<>>
    IN  /\ loads + Len(started) <= MaxLoads
        /\ reading' = reading (+) SeqToBag(started)
        /\ loads' = loads + Len(started)

Cls_handleFileSelect(files) ==
    /\ variant = "class" /\ errorMsg = ""
    /\ Cls_processFiles(files)
    /\ UNCHANGED <<variant, uploaded, occasionValue, clothingTypeValue, colorPreferenceValue,
                   btnDisabled, btnLoading, loadingMsg, errorMsg, currentCombinations,
                   displayed, resultsShown, uploadReqs, timers, genReqs, genSeq, submitted, idsUsed,
                   resolved, lastResolved, engVars, apiVars>>

Cls_handleDrop(files) ==
    /\ variant = "class" /\ errorMsg = ""
    /\ Cls_processFiles(files)
    /\ UNCHANGED <<variant, uploaded, occasionValue, clothingTypeValue, colorPreferenceValue,
                   btnDisabled, btnLoading, loadingMsg, errorMsg, currentCombinations,
                   displayed, resultsShown, uploadReqs, timers, genReqs, genSeq, submitted, idsUsed,
                   resolved, lastResolved, engVars, apiVars>>

\* reader.onload of one read in progress
Cls_readerOnload(file, id) ==
    /\ variant = "class" /\ errorMsg = ""
    /\ BagIn(file, reading)
    /\ id \in NewIds
    /\ reading' = reading (-) SetToBag({file})
    /\ uploaded' = Append(uploaded, [id |-> id, name |-> file.name])
    /\ idsUsed' = Max2(idsUsed, id)
    /\ btnDisabled' = Cls_updateGenerateButtonState(uploaded', occasionValue)
    /\ UNCHANGED <<variant, occasionValue, clothingTypeValue, colorPreferenceValue,
                   btnLoading, loadingMsg, errorMsg, currentCombinations, displayed,
                   resultsShown, uploadReqs, timers, genReqs, genSeq, submitted, loads, resolved,
                   lastResolved, engVars, apiVars>>

\* this.uploadedImages.filter(img => img.id != imageId)
Cls_filterOut(images, imageId) == SelectSeq(images, LAMBDA img : img.id # imageId)

Cls_removeImage(imageId) ==
    /\ variant = "class" /\ errorMsg = ""
    /\ \E i \in 1..Len(uploaded) : uploaded[i].id = imageId
    /\ uploaded' = Cls_filterOut(uploaded, imageId)
    /\ btnDisabled' = Cls_updateGenerateButtonState(uploaded', occasionValue)
    /\ UNCHANGED <<variant, occasionValue, clothingTypeValue, colorPreferenceValue,
                   btnLoading, loadingMsg, errorMsg, currentCombinations, displayed,
                   resultsShown, reading, uploadReqs, timers, genReqs, genSeq, submitted, loads,
                   idsUsed, resolved, lastResolved, engVars, apiVars>>

\* 'change' / 'input' of occasion, clothingType or colorPreference
Cls_fieldChange(field, value) ==
    /\ variant = "class" /\ errorMsg = ""
    /\ \/ /\ field = "occasion"
          /\ value \in OccasionOptions /\ value # occasionValue
          /\ occasionValue' = value
          /\ UNCHANGED <<clothingTypeValue, colorPreferenceValue>>
       \/ /\ field = "clothingType"
          /\ value \in ClothingTypeOptions /\ value # clothingTypeValue
          /\ clothingTypeValue' = value
          /\ UNCHANGED <<occasionValue, colorPreferenceValue>>
       \/ /\ field = "colorPreference"
          /\ value \in ColorPreferenceOptions /\ value # colorPreferenceValue
          /\ colorPreferenceValue' = value
          /\ UNCHANGED <<occasionValue, clothingTypeValue>>
    /\ btnDisabled' = Cls_updateGenerateButtonState(uploaded, occasionValue')
    /\ UNCHANGED <<variant, uploaded, btnLoading, loadingMsg, errorMsg, currentCombinations,
                   displayed, resultsShown, reading, uploadReqs, timers, genReqs, genSeq, submitted,
                   loads, idsUsed, resolved, lastResolved, engVars, apiVars>>

\* handleFormSubmit up to the await inside generateCombinations; the submit
\* event comes from the enabled button (byClick) or from form.requestSubmit()
Cls_handleFormSubmit(byClick) ==
    /\ variant = "class" /\ errorMsg = ""
    /\ byClick => ~btnDisabled
    /\ IF Len(uploaded) = 0
       THEN /\ errorMsg' = "Please upload at least one clothing item."
            /\ UNCHANGED <<loadingMsg, resultsShown, timers, genSeq, submitted>>
       ELSE IF occasionValue = ""
       THEN /\ errorMsg' = "Please select an occasion."
            /\ UNCHANGED <<loadingMsg, resultsShown, timers, genSeq, submitted>>
       ELSE /\ genSeq < MaxGen
            /\ loadingMsg' = "loading"
            /\ resultsShown' = FALSE
            /\ genSeq' = genSeq + 1
            /\ submitted' = Append(submitted, [images |-> uploaded, occasion |-> occasionValue])
            /\ timers' = Append(timers, genSeq + 1)
            /\ UNCHANGED errorMsg
    /\ UNCHANGED <<variant, uploaded, occasionValue, clothingTypeValue, colorPreferenceValue,
                   btnDisabled, btnLoading, currentCombinations, displayed, reading,
                   uploadReqs, genReqs, loads, idsUsed, resolved, lastResolved, engVars,
                   apiVars>>

\* getRandomImages(count): the first count images of a shuffle; the order of
\* the chosen images is kept as in this.uploadedImages
Cls_getRandomImages(images, count) ==
    {SubAt(images, P) : P \in {Q \in SUBSET (1..Len(images)) : Cardinality(Q) = count}}

\* the images createCombination can select
Cls_createCombinationImages(images) ==
    UNION {Cls_getRandomImages(images, Min2(Max2(2, r), Len(images))) : r \in 2..4}

\* the values generateAICombinations can return (rating, confidence and
\* colorAnalysis left out; occasion stands for the styleNotes built from it)
Cls_generateAICombinations(images, occ) ==
    LET numCombinations == Min2(Max2(2, Len(images) \div 2), 4)
    IN  {[k \in 1..numCombinations |-> [id |-> k, occasion |-> occ, images |-> pick[k]]] :
            pick \in [1..numCombinations -> Cls_createCombinationImages(images)]}

\* generateCombinations after the await: timers of equal delay run in the
\* order they were set
Cls_timerFire ==
    /\ variant = "class" /\ errorMsg = ""
    /\ timers # <<>>
    /\ \E combinations \in Cls_generateAICombinations(uploaded, occasionValue) :
          /\ displayed' = combinations
          /\ lastResolved' = [seq |-> Head(timers), combinations |-> combinations]
    /\ resultsShown' = TRUE
    /\ loadingMsg' = ""
    /\ resolved' = resolved \cup {Head(timers)}
    /\ timers' = Tail(timers)
    /\ submitted' = Tail(submitted)
    /\ UNCHANGED <<variant, uploaded, occasionValue, clothingTypeValue, colorPreferenceValue,
                   btnDisabled, btnLoading, errorMsg, currentCombinations, reading,
                   uploadReqs, genReqs, genSeq, loads, idsUsed, engVars, apiVars>>

(***************************************************************************)
(* Front end "web": static/js/script.js with the Flask backend.            *)
(***************************************************************************)
\* allowed_file(filename) on the file names of the model: the names with a dot
\* whose extension, lowered, is in ALLOWED_EXTENSIONS
allowed_file(file) == file.name \in {"a.png", "B.JPG", "broken.png", "dot.png"}

\* the default of the parameter num_colors
num_colors == 5

\* KMeans(n_clusters=num_colors, random_state=42, n_init=10).fit(pixels): the
\* clusters of the pixels, in the order of their labels, which is the order of
\* cluster_centers_.  A file carries them in its field clusters (centre and
\* number of pixels of each); the photos of the front ends have one pixel of
\* each colour of MIX5.
KMeansFit(file) ==
    IF "clusters" \in DOMAIN file
    THEN file.clusters
    ELSE [k \in 1..num_colors |-> [center |-> MIX5[k], size |-> 1]]

\* what extract_dominant_colors returns for the saved file
extract_dominant_colors(file) ==
    CASE file.content = "unreadable" -> <<>>
      [] file.content = "tiny" -> <<BLACK, WHITE>>
      [] OTHER -> [k \in 1..Len(KMeansFit(file)) |-> KMeansFit(file)[k].center]

\* POST /api/upload with the files of the form; ids are uuid4 strings, numbered
\* from base + 1
upload_images(files, base) ==
    LET allowed == SelectSeq(files, allowed_file)
    IN  IF files = <<>>
        THEN [status |-> 400, error |-> "No images provided"]
        ELSE IF \A k \in 1..Len(files) : files[k].name = ""
        THEN [status |-> 400, error |-> "No images selected"]
        ELSE [status |-> 200,
              success |-> TRUE,
              images |-> [k \in 1..Len(allowed) |->
                            [id |-> base + k, colors |-> extract_dominant_colors(allowed[k])]]]

\* generateBtn.disabled as updateGenerateButton sets it
Web_updateGenerateButton(images, occ) ==
    LET hasImages == Len(images) >= 2
        hasOccasion == occ # ""
    IN  ~(hasImages /\ hasOccasion)

\* uploadImagesToBackend up to the await of fetch
Web_uploadImagesToBackend(files) ==
    /\ loads + Len(files) <= MaxLoads
    /\ loadingMsg' = "Uploading and analyzing images..."
    /\ uploadReqs' = uploadReqs (+) SetToBag({files})
    /\ loads' = loads + Len(files)

Web_handleFileSelect(files) ==
    /\ variant = "web"
    /\ Web_uploadImagesToBackend(files)
    /\ UNCHANGED <<variant, uploaded, occasionValue, clothingTypeValue, colorPreferenceValue,
                   btnDisabled, btnLoading, errorMsg, currentCombinations, displayed,
                   resultsShown, reading, timers, genReqs, genSeq, submitted, idsUsed, resolved,
                   lastResolved, engVars, apiVars>>

Web_handleDrop(files) ==
    /\ variant = "web"
    /\ LET imageFiles == ImageFilesOf(files)
       IN  IF Len(imageFiles) > 0
           THEN /\ Web_uploadImagesToBackend(imageFiles)
                /\ UNCHANGED errorMsg
           ELSE /\ errorMsg' = "Please drop only image files."
                /\ UNCHANGED <<loadingMsg, uploadReqs, loads>>
    /\ UNCHANGED <<variant, uploaded, occasionValue, clothingTypeValue, colorPreferenceValue,
                   btnDisabled, btnLoading, currentCombinations, displayed, resultsShown,
                   reading, timers, genReqs, genSeq, submitted, idsUsed, resolved, lastResolved,
                   engVars, apiVars>>

\* uploadImagesToBackend after the await: the response of the backend
Web_uploadResponse(files) ==
    /\ variant = "web"
    /\ BagIn(files, uploadReqs)
    /\ uploadReqs' = uploadReqs (-) SetToBag({files})
    /\ LET result == upload_images(files, idsUsed)
       IN  IF result.status = 200
           THEN /\ uploaded' = uploaded \o result.images
                /\ idsUsed' = idsUsed + Len(result.images)
                /\ btnDisabled' = Web_updateGenerateButton(uploaded', occasionValue)
                /\ UNCHANGED errorMsg
           ELSE /\ errorMsg' = result.error
                /\ UNCHANGED <<uploaded, idsUsed, btnDisabled>>
    /\ loadingMsg' = ""
    /\ UNCHANGED <<variant, occasionValue, clothingTypeValue, colorPreferenceValue,
                   btnLoading, currentCombinations, displayed, resultsShown, reading,
                   timers, genReqs, genSeq, submitted, loads, resolved, lastResolved, engVars, apiVars>>

\* mutant: the finally block of uploadImagesToBackend is missing
Web_uploadFail_noFinally(files) ==
    /\ variant = "web"
    /\ BagIn(files, uploadReqs)
    /\ uploadReqs' = uploadReqs (-) SetToBag({files})
    /\ errorMsg' = "Failed to upload images. Please check your connection."
    /\ UNCHANGED <<variant, uploaded, occasionValue, clothingTypeValue, colorPreferenceValue,
                   btnDisabled, btnLoading, loadingMsg, currentCombinations, displayed,
                   resultsShown, reading, timers, genReqs, genSeq, submitted, loads, idsUsed, resolved,
                   lastResolved, engVars, apiVars>>

\* uploadImagesToBackend after the await: fetch rejects
Web_uploadFail(files) ==
    /\ variant = "web"
    /\ BagIn(files, uploadReqs)
    /\ uploadReqs' = uploadReqs (-) SetToBag({files})
    /\ errorMsg' = "Failed to upload images. Please check your connection."
    /\ loadingMsg' = ""
    /\ UNCHANGED <<variant, uploaded, occasionValue, clothingTypeValue, colorPreferenceValue,
                   btnDisabled, btnLoading, currentCombinations, displayed, resultsShown,
                   reading, timers, genReqs, genSeq, submitted, loads, idsUsed, resolved, lastResolved,
                   engVars, apiVars>>

\* uploadImagesToBackend after the await: the backend answers from the except
\* branch of upload_images (500, {'error': 'Upload failed: ...'})
Web_uploadError(files) ==
    /\ variant = "web"
    /\ BagIn(files, uploadReqs)
    /\ uploadReqs' = uploadReqs (-) SetToBag({files})
    /\ errorMsg' = "Upload failed"
    /\ loadingMsg' = ""
    /\ UNCHANGED <<variant, uploaded, occasionValue, clothingTypeValue, colorPreferenceValue,
                   btnDisabled, btnLoading, currentCombinations, displayed, resultsShown,
                   reading, timers, genReqs, genSeq, submitted, loads, idsUsed, resolved, lastResolved,
                   engVars, apiVars>>

\* uploadedImages.splice(index, 1), index counted from 0
Web_splice(images, index) ==
    SubSeq(images, 1, index) \o SubSeq(images, index + 2, Len(images))

Web_removeImage(index) ==
    /\ variant = "web"
    /\ index \in 0..(Len(uploaded) - 1)
    /\ uploaded' = Web_splice(uploaded, index)
    /\ btnDisabled' = Web_updateGenerateButton(uploaded', occasionValue)
    /\ UNCHANGED <<variant, occasionValue, clothingTypeValue, colorPreferenceValue,
                   btnLoading, loadingMsg, errorMsg, currentCombinations, displayed,
                   resultsShown, reading, uploadReqs, timers, genReqs, genSeq, submitted, loads,
                   idsUsed, resolved, lastResolved, engVars, apiVars>>

\* 'change' of occasion, clothingType or colorPreference
Web_selectChange(field, value) ==
    /\ variant = "web"
    /\ \/ /\ field = "occasion"
          /\ value \in OccasionOptions /\ value # occasionValue
          /\ occasionValue' = value
          /\ UNCHANGED <<clothingTypeValue, colorPreferenceValue>>
       \/ /\ field = "clothingType"
          /\ value \in ClothingTypeOptions /\ value # clothingTypeValue
          /\ clothingTypeValue' = value
          /\ UNCHANGED <<occasionValue, colorPreferenceValue>>
       \/ /\ field = "colorPreference"
          /\ value \in ColorPreferenceOptions /\ value # colorPreferenceValue
          /\ colorPreferenceValue' = value
          /\ UNCHANGED <<occasionValue, clothingTypeValue>>
    /\ btnDisabled' = Web_updateGenerateButton(uploaded, occasionValue')
    /\ UNCHANGED <<variant, uploaded, btnLoading, loadingMsg, errorMsg, currentCombinations,
                   displayed, resultsShown, reading, uploadReqs, timers, genReqs, genSeq, submitted,
                   loads, idsUsed, resolved, lastResolved, engVars, apiVars>>

\* generateCombinations up to the await of fetch, run by a click or Enter with
\* the button enabled (byClick) or called through window.clothingApp
Web_generateCombinations(byClick) ==
    /\ variant = "web"
    /\ byClick => ~btnDisabled
    /\ IF Len(uploaded) < 2
       THEN /\ errorMsg' = "Please upload at least 2 clothing items."
            /\ UNCHANGED <<btnLoading, btnDisabled, loadingMsg, genReqs, genSeq, submitted>>
       ELSE IF occasionValue = ""
       THEN /\ errorMsg' = "Please select an occasion."
            /\ UNCHANGED <<btnLoading, btnDisabled, loadingMsg, genReqs, genSeq, submitted>>
       ELSE /\ genSeq < MaxGen
            /\ btnLoading' = TRUE
            /\ btnDisabled' = TRUE
            /\ loadingMsg' = "AI is analyzing your clothes and creating perfect combinations..."
            /\ genSeq' = genSeq + 1
            /\ UNCHANGED submitted
            /\ genReqs' = genReqs \cup
                  {[seq |-> genSeq + 1,
                    data |-> [images |-> uploaded,
                              occasion |-> occasionValue,
                              clothingType |-> clothingTypeValue,
                              colorPreference |-> colorPreferenceValue]]}
            /\ UNCHANGED errorMsg
    /\ UNCHANGED <<variant, uploaded, occasionValue, clothingTypeValue, colorPreferenceValue,
                   currentCombinations, displayed, resultsShown, reading, uploadReqs, timers,
                   loads, idsUsed, resolved, lastResolved, engVars, apiVars>>

\* mutant: a response older than the one displayed is dropped
Web_generateResponse_newestOnly(req) ==
    /\ variant = "web"
    /\ req \in genReqs
    /\ genReqs' = genReqs \ {req}
    /\ \E result \in {generate_combinations(req.data)} :
           /\ resolved' = resolved \cup {req.seq}
           /\ lastResolved' = [seq |-> req.seq, combinations |-> result.combinations]
           /\ IF req.seq > lastResolved.seq
              THEN /\ currentCombinations' = result.combinations
                   /\ displayed' = result.combinations
                   /\ resultsShown' = TRUE
              ELSE UNCHANGED <<currentCombinations, displayed, resultsShown>>
    /\ btnLoading' = FALSE
    /\ btnDisabled' = Web_updateGenerateButton(uploaded, occasionValue)
    /\ loadingMsg' = ""
    /\ UNCHANGED <<variant, uploaded, occasionValue, clothingTypeValue, colorPreferenceValue,
                   errorMsg, reading, uploadReqs, timers, genSeq, submitted, loads, idsUsed, engVars,
                   apiVars>>

\* generateCombinations after the await: the response of the backend
Web_generateResponse(req) ==
    /\ variant = "web"
    /\ req \in genReqs
    /\ genReqs' = genReqs \ {req}
    /\ \E result \in {generate_combinations(req.data)} :
           IF result.status = 200
           THEN /\ currentCombinations' = result.combinations
                /\ displayed' = result.combinations
                /\ resultsShown' = TRUE
                /\ resolved' = resolved \cup {req.seq}
                /\ lastResolved' = [seq |-> req.seq, combinations |-> result.combinations]
                /\ UNCHANGED errorMsg
           ELSE /\ errorMsg' = result.error
                /\ UNCHANGED <<currentCombinations, displayed, resultsShown, resolved,
                               lastResolved>>
    /\ btnLoading' = FALSE
    /\ btnDisabled' = Web_updateGenerateButton(uploaded, occasionValue)
    /\ loadingMsg' = ""
    /\ UNCHANGED <<variant, uploaded, occasionValue, clothingTypeValue, colorPreferenceValue,
                   reading, uploadReqs, timers, genSeq, submitted, loads, idsUsed, engVars, apiVars>>

\* mutant: the finally block is missing
Web_generateFail_noFinally(req) ==
    /\ variant = "web"
    /\ req \in genReqs
    /\ genReqs' = genReqs \ {req}
    /\ errorMsg' = "Failed to generate combinations. Please try again."
    /\ UNCHANGED <<variant, uploaded, occasionValue, clothingTypeValue, colorPreferenceValue,
                   btnDisabled, btnLoading, loadingMsg, currentCombinations, displayed,
                   resultsShown, reading, uploadReqs, timers, genSeq, submitted, loads, idsUsed,
                   resolved, lastResolved, engVars, apiVars>>

\* generateCombinations after the await: fetch rejects
Web_generateFail(req) ==
    /\ variant = "web"
    /\ req \in genReqs
    /\ genReqs' = genReqs \ {req}
    /\ errorMsg' = "Failed to generate combinations. Please try again."
    /\ btnLoading' = FALSE
    /\ btnDisabled' = Web_updateGenerateButton(uploaded, occasionValue)
    /\ loadingMsg' = ""
    /\ UNCHANGED <<variant, uploaded, occasionValue, clothingTypeValue, colorPreferenceValue,
                   currentCombinations, displayed, resultsShown, reading, uploadReqs, timers,
                   genSeq, submitted, loads, idsUsed, resolved, lastResolved, engVars, apiVars>>

\* generateCombinations after the await: the backend answers from the except
\* branch of generate_combinations (500, {'error': 'Generation failed: ...'})
Web_generateError(req) ==
    /\ variant = "web"
    /\ req \in genReqs
    /\ genReqs' = genReqs \ {req}
    /\ errorMsg' = "Generation failed"
    /\ btnLoading' = FALSE
    /\ btnDisabled' = Web_updateGenerateButton(uploaded, occasionValue)
    /\ loadingMsg' = ""
    /\ UNCHANGED <<variant, uploaded, occasionValue, clothingTypeValue, colorPreferenceValue,
                   currentCombinations, displayed, resultsShown, reading, uploadReqs, timers,
                   genSeq, submitted, loads, idsUsed, resolved, lastResolved, engVars, apiVars>>

(***************************************************************************)
(* Spec: one page running one of the three front ends.                     *)
(***************************************************************************)
Fields == {"occasion", "clothingType", "colorPreference"}

FieldValues == OccasionOptions \cup ClothingTypeOptions \cup ColorPreferenceOptions

Init == FeInit /\ EngParked /\ ApiParked

Next ==
    \/ HideMessage
    \/ \E files \in FileSelections : Mock_handleFileSelect(files)
    \/ \E files \in FileSelections : Mock_handleDrop(files)
    \/ \E file \in Files, id \in 1..(MaxLoads + 1) : Mock_readerOnload(file, id)
    \/ \E id \in 1..(MaxLoads + 1) : Mock_removeImage(id)
    \/ \E field \in Fields, value \in FieldValues : Mock_selectChange(field, value)
    \/ \E byClick \in BOOLEAN : Mock_generateCombinations(byClick)
    \/ Mock_timerFire
    \/ \E files \in FileSelections : Cls_handleFileSelect(files)
    \/ \E files \in FileSelections : Cls_handleDrop(files)
    \/ \E file \in Files, id \in 1..(MaxLoads + 1) : Cls_readerOnload(file, id)
    \/ \E imageId \in 1..(MaxLoads + 1) : Cls_removeImage(imageId)
    \/ \E field \in Fields, value \in FieldValues : Cls_fieldChange(field, value)
    \/ \E byClick \in BOOLEAN : Cls_handleFormSubmit(byClick)
    \/ Cls_timerFire
    \/ \E files \in FileSelections : Web_handleFileSelect(files)
    \/ \E files \in FileSelections : Web_handleDrop(files)
    \/ \E files \in FileSelections : Web_uploadResponse(files)
    \/ \E files \in FileSelections : Web_uploadFail(files)
    \/ \E files \in FileSelections : Web_uploadError(files)
    \/ \E index \in 0..(MaxLoads - 1) : Web_removeImage(index)
    \/ \E field \in Fields, value \in FieldValues : Web_selectChange(field, value)
    \/ \E byClick \in BOOLEAN : Web_generateCombinations(byClick)
    \/ \E req \in genReqs : Web_generateResponse(req)
    \/ \E req \in genReqs : Web_generateFail(req)
    \/ \E req \in genReqs : Web_generateError(req)

Spec == Init /\ [][Next]_vars

(***************************************************************************)
(* SpecLimit: the front end "class" from a page whose working set is one   *)
(* or two images short of the limit of 12; the user selects, drops and     *)
(* removes files.                                                          *)
(***************************************************************************)
\* n images read earlier, one after the other
LoadedImages(n) == [i \in 1..n |-> [id |-> i, name |-> PNG.name]]

LimitInit ==
    /\ variant = "class"
    /\ \E n \in {MaxImages - 2, MaxImages - 1} :
          /\ uploaded = LoadedImages(n)
          /\ idsUsed = n
    /\ occasionValue = ""
    /\ clothingTypeValue = ""
    /\ colorPreferenceValue = ""
    /\ btnDisabled = TRUE
    /\ btnLoading = FALSE
    /\ loadingMsg = ""
    /\ errorMsg = ""
    /\ currentCombinations = <<>>
    /\ displayed = <<>>
    /\ resultsShown = FALSE
    /\ reading = EmptyBag
    /\ uploadReqs = EmptyBag
    /\ timers = <<>>
    /\ genReqs = {}
    /\ genSeq = 0
    /\ submitted = <<>>
    /\ loads = 0
    /\ resolved = {}
    /\ lastResolved = [seq |-> 0, combinations |-> <<>>]
    /\ EngParked
    /\ ApiParked

LimitNext ==
    \/ \E files \in FileSelections : Cls_handleFileSelect(files)
    \/ \E files \in FileSelections : Cls_handleDrop(files)
    \/ \E file \in Files, id \in 1..(MaxImages + MaxLoads) : Cls_readerOnload(file, id)
    \/ \E imageId \in 1..(MaxLoads + 1) : Cls_removeImage(imageId)

SpecLimit == LimitInit /\ [][LimitNext]_vars

\* the generations of the web front end whose request is in flight
PendingRequests == {req.seq : req \in genReqs}

\* SpecLive: Spec with the scheduling the browser gives.  A timer that is due
\* fires; in "class" every alert is closed, so a due timer gets its turn; a
\* message is hidden after its 5 s; every fetch settles, with a response or a
\* rejection (stated on the requests in flight: each is sent once, so it is
\* infinitely often not in flight exactly when it settles)
SpecLive ==
    /\ Spec
    /\ WF_vars(Mock_timerFire)
    /\ SF_vars(Cls_timerFire)
    /\ WF_vars(HideMessage)
    /\ \A n \in 1..MaxGen : []<>(n \notin PendingRequests)

(***************************************************************************)
(* SpecUpload: POST /api/upload called directly, with any form.            *)
(***************************************************************************)
JPG == [name |-> "B.JPG", type |-> "image/jpeg", content |-> "photo"]

\* a file that is named as an image and is not one
BROKEN == [name |-> "broken.png", type |-> "image/png", content |-> "unreadable"]

\* an image of one pixel
DOT == [name |-> "dot.png", type |-> "image/png", content |-> "tiny"]

\* the part a browser sends for a file input left empty
NONAME == [name |-> "", type |-> "application/octet-stream", content |-> "unreadable"]

UploadFiles == {PNG, JPG, TXT, BROKEN, DOT, NONAME}

\* request.files.getlist('images'); <<>> is a form without the 'images' field
UploadRequests == UNION {[1..n -> UploadFiles] : n \in 0..MaxUploadFiles}

UploadInit ==
    /\ FeParked
    /\ EngParked
    /\ apiReq \in UploadRequests
    /\ apiResp = NoResponse
    /\ uploadDir = {}

\* file.save(filepath) of upload_images: the k-th allowed file is kept as
\* "<uuid>_<name>"
SavedUploads(files) ==
    LET allowed == SelectSeq(files, allowed_file)
    IN  {[temp |-> FALSE, request |-> k, name |-> allowed[k].name] : k \in 1..Len(allowed)}

Upload_upload_images ==
    /\ apiResp = NoResponse
    /\ apiResp' = upload_images(apiReq, 0)
    /\ uploadDir' = uploadDir \cup SavedUploads(apiReq)
    /\ UNCHANGED <<feVars, engVars, apiReq>>

UploadNext == Upload_upload_images

SpecUpload == UploadInit /\ [][UploadNext]_vars

(***************************************************************************)
(* SpecExtract: extract_dominant_colors called on one saved file: a photo  *)
(* whose pixels fall into num_colors clusters of any sizes up to           *)
(* MaxClusterSize, a file that is not an image, an image of one pixel.     *)
(***************************************************************************)
ClusterLists ==
    {[k \in 1..num_colors |-> [center |-> MIX5[k], size |-> sizes[k]]] :
        sizes \in [1..num_colors -> 1..MaxClusterSize]}

ExtractFiles ==
    {[name |-> "a.png", type |-> "image/png", content |-> "photo", clusters |-> cl] :
        cl \in ClusterLists}
    \cup {BROKEN, DOT}

ExtractInit ==
    /\ FeParked
    /\ EngParked
    /\ apiReq \in ExtractFiles
    /\ apiResp = NoResponse
    /\ uploadDir = {}

Extract_extract_dominant_colors ==
    /\ apiResp = NoResponse
    /\ apiResp' = [colors |-> extract_dominant_colors(apiReq)]
    /\ UNCHANGED <<feVars, engVars, apiReq, uploadDir>>

ExtractNext == Extract_extract_dominant_colors

SpecExtract == ExtractInit /\ [][ExtractNext]_vars

(***************************************************************************)
(* SpecAnalyze: POST /api/analyze-image, up to MaxRequests requests one    *)
(* after the other.  A request is numbered (seq, standing for the uuid4 of *)
(* its temporary file) and carries the file of the field 'image', or none. *)
(***************************************************************************)
\* a form without the field 'image'
NoImage == [name |-> "", type |-> "", content |-> "none"]

AnalyzeFiles == UploadFiles \cup {NoImage}

\* "temp_<uuid>_<name>" in the upload folder
TempFile(seq, file) == [temp |-> TRUE, request |-> seq, name |-> file.name]

\* analyze_single_image: the answer, and the upload folder afterwards.
\* extract_dominant_colors, detect_clothing_type and get_color_name catch
\* their own exceptions; Image.open raises for a file that is not an image,
\* and the except branch answers without os.remove having run.
analyze_single_image(seq, file, dir) ==
    IF file = NoImage
    THEN [response |-> [status |-> 400, error |-> "No image provided"], dir |-> dir]
    ELSE IF ~allowed_file(file)
    THEN [response |-> [status |-> 400, error |-> "Invalid file type"], dir |-> dir]
    ELSE LET saved == dir \cup {TempFile(seq, file)}
         IN  IF file.content = "unreadable"
             THEN [response |-> [status |-> 500, error |-> "Analysis failed"], dir |-> saved]
             ELSE [response |-> [status |-> 200, success |-> TRUE],
                   dir |-> saved \ {TempFile(seq, file)}]

AnalyzeInit ==
    /\ FeParked
    /\ EngParked
    /\ apiReq \in {[seq |-> 1, image |-> file] : file \in AnalyzeFiles}
    /\ apiResp = NoResponse
    /\ uploadDir = {}

Analyze_analyze_single_image ==
    /\ apiResp = NoResponse
    /\ \E result \in {analyze_single_image(apiReq.seq, apiReq.image, uploadDir)} :
          /\ apiResp' = result.response
          /\ uploadDir' = result.dir
    /\ UNCHANGED <<feVars, engVars, apiReq>>

\* the next request arrives
Analyze_request ==
    /\ apiResp # NoResponse
    /\ apiReq.seq < MaxRequests
    /\ \E file \in AnalyzeFiles : apiReq' = [seq |-> apiReq.seq + 1, image |-> file]
    /\ apiResp' = NoResponse
    /\ UNCHANGED <<feVars, engVars, uploadDir>>

AnalyzeNext == Analyze_analyze_single_image \/ Analyze_request

SpecAnalyze == AnalyzeInit /\ [][AnalyzeNext]_vars

(***************************************************************************)
(* Properties of the backend (SpecEngine, SpecApi).                        *)
(***************************************************************************)
ApiCombinations == IF apiResp.status = 200 THEN apiResp.combinations ELSE <<>>

\* C1: in a generate-combinations response (one occasion), any two combinations
\* that carry the same harmony label have the same score and the same rating.
C1_ScoreByHarmonyAndOccasion ==
    \A i, j \in 1..Len(ApiCombinations) :
        ApiCombinations[i].harmony = ApiCombinations[j].harmony
            => /\ ApiCombinations[i].score = ApiCombinations[j].score
               /\ ApiCombinations[i].rating = ApiCombinations[j].rating

\* min(d, 360 - d) of the hue difference d of two colours
CircularDiff(x, y) ==
    LET d == RatAbsDiff(x, y)
    IN  IF d.n <= 180 * d.d THEN d ELSE [n |-> 360 * d.d - d.n, d |-> d.d]

HasCircularOpposites(colors) ==
    \E i, j \in 1..Len(colors) :
        /\ i # j
        /\ RatBetween(CircularDiff(HueDegrees(HexToRgb(colors[i])),
                                   HueDegrees(HexToRgb(colors[j]))), 160, 200)

C3_ScoreInRange == scoreOut # 0 => scoreOut \in 65..95

C3_Witness ==
    /\ colorsIn = <<RED, BLUE>>
    /\ occasionIn = "formal"
    /\ harmonyOut = "diverse"
    /\ scoreOut = 65

Clamp(x, lo, hi) == IF x < lo THEN lo ELSE IF x > hi THEN hi ELSE x

\* C4: every returned combination has rating = clamp(floor(score/20) + 1, 1, 5),
\* within 1..5; the scores 65, 80 and 95 map to 4, 5 and 5.
C4_RatingFromScore ==
    /\ \A i \in 1..Len(ApiCombinations) :
          LET c == ApiCombinations[i]
          IN  /\ c.rating = Clamp((c.score \div 20) + 1, 1, 5)
              /\ c.rating \in 1..5
              /\ c.score = 65 => c.rating = 4
              /\ c.score = 80 => c.rating = 5
    /\ Rating(65) = 4 /\ Rating(80) = 5 /\ Rating(95) = 5

C4_Witness ==
    \E i \in 1..Len(ApiCombinations) :
        ApiCombinations[i].score = 80 /\ ApiCombinations[i].rating = 5

(***************************************************************************)
(* Properties of the front ends (Spec).                                    *)
(***************************************************************************)
\* generations submitted whose timer or request is still pending
InProgress == Len(timers) + Cardinality(genReqs)

\* C5: while a submitted generation has not completed, the generate control
\* is disabled, and at most one generation is in progress
C5_DisabledWhileGenerating ==
    /\ InProgress > 0 => btnDisabled
    /\ InProgress <= 1

\* C6: once a generation has resolved, the combinations displayed, and
\* currentCombinations where the front end keeps it, are those of the
\* generation that resolved last, whichever was submitted first
C6_LastResolvedWins ==
    lastResolved.seq # 0 =>
        /\ displayed = lastResolved.combinations
        /\ variant \in {"mock", "web"} => currentCombinations = lastResolved.combinations

\* two requests were in flight together and the one sent first resolved last
C6_Witness ==
    /\ variant = "web"
    /\ resolved = {1, 2}
    /\ genReqs = {}
    /\ lastResolved.seq = 1
    /\ displayed = lastResolved.combinations

\* the images of the working set
UploadedSet == {uploaded[i] : i \in 1..Len(uploaded)}

\* the images a list of combinations refers to
ImagesOf(combinations) ==
    UNION {{combinations[i].images[j] : j \in 1..Len(combinations[i].images)} :
              i \in 1..Len(combinations)}

\* C7: every image of a combination in currentCombinations is in the working set
C7_CombinationsWithinWorkingSet == ImagesOf(currentCombinations) \subseteq UploadedSet

\* C8: every combination a generation produced has 2 to 4 images
C8_TwoToFourImages ==
    \A i \in 1..Len(displayed) : Len(displayed[i].images) \in 2..4

\* a step of the handler that requests a generation
GenerationRequested ==
    \E byClick \in BOOLEAN :
        \/ Mock_generateCombinations(byClick)
        \/ Cls_handleFormSubmit(byClick)
        \/ Web_generateCombinations(byClick)

\* C9: requesting a generation with an empty working set shows a validation
\* error and starts nothing: no timer, no request, the generating state is
\* not entered and the combinations stay as they are
C9_EmptyWorkingSetRejected ==
    [][(GenerationRequested /\ uploaded = <<>>) =>
          /\ errorMsg' \in {"Please upload at least one clothing item.",
                            "Please upload at least 2 clothing items."}
          /\ timers' = timers
          /\ genReqs' = genReqs
          /\ genSeq' = genSeq
          /\ btnLoading' = btnLoading
          /\ btnDisabled' = btnDisabled
          /\ loadingMsg' = loadingMsg
          /\ currentCombinations' = currentCombinations
          /\ displayed' = displayed
          /\ resultsShown' = resultsShown]_vars

\* the validation error of a request made with an empty working set is shown,
\* with the occasion chosen
C9_Witness ==
    /\ uploaded = <<>>
    /\ occasionValue # ""
    /\ errorMsg = "Please upload at least one clothing item."
    /\ timers = <<>>

\* C10: the step that adds an image to the working set, followed by the
\* removal of that image, gives the working set the step started from
C10_UploadThenRemove ==
    [][/\ \A file \in Files, id \in 1..(MaxLoads + 1) :
             Mock_readerOnload(file, id) => Mock_filterOut(uploaded', id) = uploaded
       /\ \A file \in Files, id \in 1..(MaxLoads + 1) :
             Cls_readerOnload(file, id) => Cls_filterOut(uploaded', id) = uploaded
       /\ \A files \in FileSelections :
             (Web_uploadResponse(files) /\ Len(uploaded') = Len(uploaded) + 1) =>
                 Web_splice(uploaded', Len(uploaded') - 1) = uploaded]_vars

\* generateBtn.disabled as the front end's update function computes it from
\* the working set and the occasion
RecomputedDisabled ==
    CASE variant = "mock" -> Mock_updateGenerateButton(uploaded, occasionValue)
      [] variant = "class" -> Cls_updateGenerateButtonState(uploaded, occasionValue)
      [] OTHER -> Web_updateGenerateButton(uploaded, occasionValue)

\* no generation is pending, no loading marker is left and the generate
\* control is as the working set and the occasion make it
GeneratingLeft ==
    /\ InProgress = 0
    /\ ~btnLoading
    /\ loadingMsg = ""
    /\ btnDisabled = RecomputedDisabled

\* C11: every generation that has entered the generating state leaves it,
\* on success and on failure: its timer or request is gone, the loading
\* marker is removed and the generate control is recomputed
C11_GenerationEnds == (InProgress > 0) ~> GeneratingLeft

\* a generation of the web front end ended by a rejected fetch
C11_Witness ==
    /\ variant = "web"
    /\ genSeq > 0
    /\ errorMsg = "Failed to generate combinations. Please try again."
    /\ GeneratingLeft

(***************************************************************************)
(* Properties of the upload endpoint (SpecUpload).                         *)
(***************************************************************************)
\* the files of the request that upload_images processes
ValidImages == SelectSeq(apiReq, allowed_file)

UploadAnswered == apiResp # NoResponse /\ apiReq \in UploadRequests

\* C12: an upload request with no valid image (no 'images' field, only empty
\* file names, or no file with an allowed extension) is answered 400 with an
\* error body, never with a success body.
C12_NoValidImageRejected ==
    (UploadAnswered /\ ValidImages = <<>>) =>
        /\ apiResp.status = 400
        /\ "error" \in DOMAIN apiResp
        /\ "success" \notin DOMAIN apiResp

\* a file that cv2.imread cannot read, or that KMeans cannot cluster
IsDegenerate(file) == file.content \in {"unreadable", "tiny"}

\* C13: for a degenerate input (an unreadable image file, or a failure while
\* clustering) extract_dominant_colors returns the fallback pair
\* #000000, #FFFFFF, never an empty list.
C13_FallbackColors ==
    (UploadAnswered /\ apiResp.status = 200) =>
        \A k \in 1..Len(ValidImages) :
            IsDegenerate(ValidImages[k]) =>
                apiResp.images[k].colors = <<BLACK, WHITE>>

(***************************************************************************)
(* Properties of the file selection (Spec).                                *)
(***************************************************************************)
\* the user picks the files in the file dialog, or drops them on the page
FilesChosen(files) ==
    \/ Mock_handleFileSelect(files)
    \/ Mock_handleDrop(files)
    \/ Cls_handleFileSelect(files)
    \/ Cls_handleDrop(files)
    \/ Web_handleFileSelect(files)
    \/ Web_handleDrop(files)

\* C14: when the user selects or drops files none of which is an image, a
\* validation error is shown, no upload request is dispatched and nothing is
\* added to the working set, on the file-picker path and on the drop path.
C14_NonImagesRejected ==
    [][\A files \in FileSelections :
          (FilesChosen(files) /\ ImageFilesOf(files) = <<>>) =>
              /\ errorMsg' # ""
              /\ uploadReqs' = uploadReqs
              /\ reading' = reading
              /\ uploaded' = uploaded]_vars

(***************************************************************************)
(* Properties of the generate-combinations endpoint (SpecApi).             *)
(***************************************************************************)
\* C15: the combinations of a generate-combinations response are in
\* non-increasing order of score, for every list of at least 2 images and
\* every occasion.
C15_SortedByScore ==
    \A i, j \in 1..Len(ApiCombinations) :
        i < j => ApiCombinations[i].score >= ApiCombinations[j].score

\* a response whose combinations were built in another order than they are
\* returned in
C15_Witness ==
    /\ apiResp.status = 200
    /\ \E i, j \in 1..Len(ApiCombinations) :
          /\ i < j
          /\ ApiCombinations[i].id > ApiCombinations[j].id
          /\ ApiCombinations[i].score > ApiCombinations[j].score

\* the request carries fewer than 2 images: none, one, or no data at all
FewerThanTwoImages ==
    \/ apiReq \in {NoData, NoJson}
    \/ Len(Get(apiReq, "images", <<>>)) < 2

\* C16: a generate-combinations request with fewer than 2 images (0, 1, or no
\* data) is answered 400 with an error body and no combination.
C16_TooFewImagesRejected ==
    (apiResp # NoResponse /\ apiReq \in ApiRequests /\ FewerThanTwoImages) =>
        /\ apiResp.status = 400
        /\ "error" \in DOMAIN apiResp
        /\ "combinations" \notin DOMAIN apiResp

(***************************************************************************)
(* Properties of the harmony classification (SpecHarmony) and of the score *)
(* (SpecEngine).                                                           *)
(***************************************************************************)
\* C17: for the empty colour list and for a list of exactly one colour,
\* analyze_color_harmony returns 'monochrome'.
C17_FewColorsMonochrome ==
    (harmonyOut # "" /\ Len(colorsIn) < 2) => harmonyOut = "monochrome"

C17_Witness == Len(colorsIn) = 1 /\ harmonyOut = "monochrome"

\* every reordering of the list s
PermutationsOf(s) ==
    LET n == Len(s)
        bijections == {q \in [1..n -> 1..n] : \A a, b \in 1..n : q[a] = q[b] => a = b}
    IN  {[i \in 1..n |-> s[q[i]]] : q \in bijections}

\* C18: the harmony classification is order-independent: for every colour list
\* and every permutation of it, analyze_color_harmony returns the same label.
C18_OrderIndependent ==
    harmonyOut # "" =>
        \A permuted \in PermutationsOf(colorsIn) :
            analyze_color_harmony(permuted) = harmonyOut

\* the opposite colours are first and last in one order, neighbours in others
C18_Witness ==
    /\ colorsIn = <<CYAN, GREEN, RED>>
    /\ harmonyOut = "complementary"
    /\ Cardinality(PermutationsOf(colorsIn)) = 6

\* the hues of the colours of the call
HuesIn == Hues(colorsIn)

\* no two hues are 160 to 200 degrees apart (absolute difference)
NoComplementaryDifference ==
    \A i, j \in 1..Len(HuesIn) : ~RatBetween(RatAbsDiff(HuesIn[i], HuesIn[j]), 160, 200)

\* max - min of the hues is at most bound: every two hues are that close
HueRangeWithin(bound) ==
    \A i, j \in 1..Len(HuesIn) : RatBetween(RatAbsDiff(HuesIn[i], HuesIn[j]), 0, bound)

BaseOf(h) ==
    CASE h = "complementary" -> 95
      [] h = "analogous" -> 90
      [] h = "triadic" -> 85
      [] h = "monochrome" -> 80
      [] h = "diverse" -> 75
      [] OTHER -> 70

\* the multiplier of formal, party and an occasion absent from the table, in
\* hundredths
MultiplierOf(o, h) ==
    CASE o = "formal" -> IF h \in {"complementary", "monochrome"} THEN 90 ELSE 80
      [] o = "party" -> IF h \in {"complementary", "diverse"} THEN 95 ELSE 85
      [] OTHER -> 90

\* C20: for a non-empty colour list with harmony h and occasion o (formal,
\* party, or one absent from the table), calculate_outfit_score returns
\* clamp(floor(base(h) * m(o, h)), 65, 95).
C20_ScoreFormula ==
    (scoreOut # 0 /\ colorsIn # <<>> /\ occasionIn \in {"formal", "party", OtherOccasion}) =>
        LET h == analyze_color_harmony(colorsIn)
        IN  scoreOut = Clamp((BaseOf(h) * MultiplierOf(occasionIn, h)) \div 100, 65, 95)

C20_Witness ==
    /\ colorsIn = <<RED, ORANGE>>
    /\ occasionIn = "formal"
    /\ harmonyOut = "analogous"
    /\ scoreOut = 72

(***************************************************************************)
(* Properties of failed requests (Spec, front end "web").                  *)
(***************************************************************************)
\* this step ends the upload request of files with a failure: fetch rejects, or
\* the answer is an error body
UploadFails(files) ==
    /\ BagIn(files, uploadReqs)
    /\ \/ Web_uploadFail(files)
       \/ Web_uploadError(files)
       \/ upload_images(files, idsUsed).status # 200 /\ Web_uploadResponse(files)

\* this step ends the generation request req without a result
GenerationFails(req) ==
    /\ genReqs' = genReqs \ {req}
    /\ resolved' = resolved

\* C21: when an upload or a generation request fails (transport error or error
\* response), an error message is shown, the failure leaves the working set and
\* the current combinations as they were, and the page is idle again: the
\* loading message is gone and, after a failed generation, the button is not
\* loading and is enabled when the images and the occasion of the request are
\* still the ones selected, so that the same request can be made again.
C21_FailureBackToIdle ==
    [][/\ \A files \in FileSelections :
             UploadFails(files) =>
                 /\ errorMsg' # ""
                 /\ uploaded' = uploaded
                 /\ currentCombinations' = currentCombinations
                 /\ displayed' = displayed
                 /\ loadingMsg' = ""
       /\ \A req \in genReqs :
             GenerationFails(req) =>
                 /\ errorMsg' # ""
                 /\ uploaded' = uploaded
                 /\ currentCombinations' = currentCombinations
                 /\ displayed' = displayed
                 /\ loadingMsg' = ""
                 /\ ~btnLoading'
                 /\ (uploaded = req.data.images /\ occasionValue = req.data.occasion)
                        => ~btnDisabled']_vars

\* a generation has failed and the same request can be made again
C21_Witness ==
    /\ variant = "web"
    /\ errorMsg = "Generation failed"
    /\ genSeq > 0
    /\ genReqs = {}
    /\ Len(uploaded) >= 2
    /\ occasionValue # ""
    /\ ~btnDisabled
    /\ ~btnLoading
    /\ loadingMsg = ""
    /\ currentCombinations = <<>>

(***************************************************************************)
(* Properties of extract_dominant_colors (SpecExtract).                    *)
(***************************************************************************)
\* the number of pixels of the cluster of the photo whose centre is color
ClusterSizeOf(color) ==
    LET clusters == KMeansFit(apiReq)
    IN  clusters[CHOOSE k \in 1..Len(clusters) : clusters[k].center = color].size

\* C22: the colours returned by extract_dominant_colors for the target count k
\* are at most k and are in non-increasing order of the number of pixels of
\* their cluster, so that the first colour is the one of the largest cluster.
C22_OrderedByClusterSize ==
    (apiResp # NoResponse /\ apiReq \in ExtractFiles) =>
        /\ Len(apiResp.colors) <= num_colors
        /\ apiReq.content = "photo" =>
              \A i, j \in 1..Len(apiResp.colors) :
                  i < j => ClusterSizeOf(apiResp.colors[i]) >= ClusterSizeOf(apiResp.colors[j])

(***************************************************************************)
(* Properties of the limit of the working set (SpecLimit).                 *)
(***************************************************************************)
\* C23: in the front end "class" the working set never holds more than 12
\* images, after any sequence of file selections, drops and removals, also when
\* several files are selected in one action and their reads complete later.
C23_AtMostTwelveImages == variant = "class" => Len(uploaded) <= MaxImages

(***************************************************************************)
(* Properties of the progress indicator (Spec, front end "web").           *)
(***************************************************************************)
\* C24: in the front end "web", while a generation request is in flight the
\* loading message is shown, under every interleaving with upload requests
\* that start or complete in the meantime.
C24_LoadingShownWhileGenerating ==
    (variant = "web" /\ genReqs # {}) => loadingMsg # ""

(***************************************************************************)
(* Properties of what a generation is built from (Spec).                   *)
(***************************************************************************)
\* the elements of a sequence
Range(seq) == {seq[k] : k \in 1..Len(seq)}

\* C25: the combinations shown for a generation are built only from images
\* that were in the working set, and from the occasion that was selected, when
\* the generation was requested, also when images are uploaded or removed or
\* the occasion is changed while it is in progress.
C25_BuiltFromSubmittedInput ==
    [][/\ (variant \in {"mock", "class"} /\ timers # <<>> /\ timers' = Tail(timers)) =>
             \A k \in 1..Len(displayed') :
                 /\ Range(displayed'[k].images) \subseteq Range(Head(submitted).images)
                 /\ displayed'[k].occasion = Head(submitted).occasion
       /\ \A req \in genReqs :
             (genReqs' = genReqs \ {req} /\ resolved' # resolved) =>
                 \A k \in 1..Len(displayed') :
                     /\ Range(displayed'[k].images) \subseteq Range(req.data.images)
                     /\ displayed'[k].score =
                           calculate_outfit_score(displayed'[k].images, req.data.occasion, "")]_vars

(***************************************************************************)
(* Properties of the generate control (Spec).                              *)
(***************************************************************************)
\* the least number of images a generation needs
MinImages == IF variant = "web" THEN 2 ELSE 1

\* C26: whenever no generation is in progress, the generate control is enabled
\* exactly when the working set holds at least the minimum number of images (1
\* in the front ends without backend, 2 in the front end "web") and an
\* occasion is selected.
C26_EnabledWhenReady ==
    InProgress = 0 =>
        (~btnDisabled <=> (Len(uploaded) >= MinImages /\ occasionValue # ""))

C26_Witness ==
    /\ InProgress = 0
    /\ genSeq > 0
    /\ ~btnDisabled
    /\ Len(uploaded) >= MinImages
    /\ occasionValue # ""

(***************************************************************************)
(* Properties of the selection of images (SpecApi).                        *)
(***************************************************************************)
\* the images of the request
RequestImages == Get(apiReq, "images", <<>>)

\* size consecutive images from position i (counted from 0), wrapping around
Window(images, i, size) ==
    [k \in 1..size |-> images[((i + k - 1) % Len(images)) + 1]]

\* C27: for a request with n >= 2 images generate-combinations builds min(4, n)
\* combinations, the i-th (i from 0) made of min(4, max(2, n - i)) consecutive
\* images starting at position i and wrapping around to the start of the list;
\* no image appears twice in one combination.
C27_SlidingWindow ==
    (apiResp # NoResponse /\ apiReq \in ApiRequests /\ Len(RequestImages) >= 2) =>
        LET n == Len(RequestImages)
            count == IF n < 4 THEN n ELSE 4
        IN  /\ apiResp.status = 200
            /\ Len(apiResp.combinations) = count
            /\ {apiResp.combinations[k].id : k \in 1..count} = 1..count
            /\ \A k \in 1..count :
                  LET c == apiResp.combinations[k]
                      i == c.id - 1
                      size == Clamp(n - i, 2, 4)
                  IN  /\ c.images = Window(RequestImages, i, size)
                      /\ \A a, b \in 1..Len(c.images) :
                            c.images[a].id = c.images[b].id => a = b

\* the window of the second combination of two images wraps around
C27_Witness ==
    /\ apiResp # NoResponse
    /\ Len(RequestImages) = 2
    /\ \E k \in 1..Len(ApiCombinations) :
          /\ ApiCombinations[k].id = 2
          /\ ApiCombinations[k].images = <<RequestImages[2], RequestImages[1]>>

(***************************************************************************)
(* Properties of the analyze-image endpoint (SpecAnalyze).                 *)
(***************************************************************************)
\* C28: after an analyze-image request has been answered, with success or with
\* an error, the temporary file the request saved is no longer in the upload
\* folder.
C28_TempFileRemoved ==
    (apiResp # NoResponse /\ "seq" \in DOMAIN apiReq) =>
        \A f \in uploadDir : ~(f.temp /\ f.request = apiReq.seq)

(***************************************************************************)
(* Properties of the upper end of the score (SpecEngine).                  *)
(***************************************************************************)
\* C29: for every harmony label and occasion, calculate_outfit_score returns at
\* most 90: the score never reaches 95, so the upper clamp is never the value
\* returned.
C29_ScoreAtMostNinety == scoreOut # 0 => (scoreOut <= 90 /\ scoreOut # 95)

C29_Witness ==
    /\ colorsIn = <<RED, CYAN>>
    /\ occasionIn = "casual"
    /\ harmonyOut = "complementary"
    /\ scoreOut = 90

(***************************************************************************)
(* Properties of the removal of an image (Spec).                           *)
(***************************************************************************)
\* images without the element at position i (counted from 1)
WithoutPosition(images, i) == SubSeq(images, 1, i - 1) \o SubSeq(images, i + 1, Len(images))

\* this step is a removal of one image, in any of the three front ends
RemovalStep ==
    \/ \E id \in 1..(MaxLoads + 1) : Mock_removeImage(id) \/ Cls_removeImage(id)
    \/ \E index \in 0..(MaxLoads * MaxSelect) : Web_removeImage(index)

\* C30: removing one image leaves every other image of the working set, and
\* their relative order, unchanged, and changes neither the current
\* combinations nor the selected occasion, clothing type or colour preference.
C30_RemoveLeavesOthers ==
    [][RemovalStep =>
          /\ \E i \in 1..Len(uploaded) : uploaded' = WithoutPosition(uploaded, i)
          /\ currentCombinations' = currentCombinations
          /\ occasionValue' = occasionValue
          /\ clothingTypeValue' = clothingTypeValue
          /\ colorPreferenceValue' = colorPreferenceValue]_vars

====
